---- MODULE Spec2Model ----
(***************************************************************************)
(* The two Streamlit front ends of the JSON-to-TOON converter:             *)
(*   app = "json"   src/JSON-TOON-converter.py                             *)
(*   app = "multi"  src/Multi format data to TOON/                         *)
(*                      multi_format_toon_converter.py                     *)
(* A Streamlit script is run from top to bottom once per user interaction. *)
(* Widget values and st.session_state live across the runs; everything     *)
(* else is local to one run.  One action below is one interaction followed *)
(* by the whole run of the script it triggers.  The variable `run' holds   *)
(* what the latest run did and rendered.                                   *)
(*                                                                         *)
(* toon.encode, json, pandas, yaml, ElementTree and tomllib are libraries  *)
(* the scripts import.  Their results are abstracted: a file's content is  *)
(* a class of documents (Contents), a parsed tree is a Value record, and   *)
(* the text encode returns is not modelled, only the call and whether it   *)
(* raised.                                                                 *)
(***************************************************************************)
EXTENDS Integers, Sequences, FiniteSets, TLC

VARIABLES
    app,               \* which of the two scripts the session runs
    tomllib,           \* "module" or PyNone: the outcome of the import at multi 20-26
    uploaded_file,     \* st.file_uploader's value: a file or NoFile (Python None)
    indent_size,       \* st.slider
    delimiter,         \* st.selectbox
    use_length_marker, \* st.checkbox
    wrap_in_object,    \* st.checkbox (multi)
    data_key,          \* st.text_input (multi)
    session_state,     \* st.session_state: a dict, here a function on its keys
    last_sample,       \* history: the sample button clicked most recently, or "none"
    options_changed,   \* history: the user has moved an encode option off its initial value
    run,               \* what the latest run of the script did
    json_size,         \* SpecStats: len(json_str)
    toon_size,         \* SpecStats: len(toon_output)
    report,            \* SpecStats: the figures the metrics show
    xml_doc,           \* SpecXml: the Element ET.fromstring returns
    xml_result         \* SpecXml: what parse_xml returns for it

uivars == <<app, tomllib, uploaded_file, indent_size, delimiter, use_length_marker,
            wrap_in_object, data_key, session_state, last_sample, options_changed,
            run>>
statvars == <<json_size, toon_size, report>>
xmlvars == <<xml_doc, xml_result>>
vars == <<app, tomllib, uploaded_file, indent_size, delimiter, use_length_marker,
          wrap_in_object, data_key, session_state, last_sample, options_changed, run,
          json_size, toon_size, report, xml_doc, xml_result>>

-----------------------------------------------------------------------------
(* Python values *)

PyNone == "None"
PyFalse == "False"
PyTrue == "True"

\* The slider's range and default, st.slider("Indentation (spaces)", 1, 4, 2).
MinIndent == 1
MaxIndent == 4
DefaultIndent == 2

\* The selectbox's options; index=0 selects "comma".
Delimiters == {"comma", "tab", "pipe"}
DefaultDelimiter == "comma"

\* The text st.text_input can hold: the default "data" and one other key.
DefaultDataKey == "data"
DataKeys == {"data", "rows"}

NoKey == "<no key>"

(* A Value tree.  body names the data, shape its outermost container, and   *)
(* key # NoKey says the tree is the one-entry dict {key: <body>} built by   *)
(* the wrapper.                                                             *)
Tree(shape, body) == [shape |-> shape, key |-> NoKey, body |-> body]
NoTree == [shape |-> "none", key |-> NoKey, body |-> "none"]

\* {data_key: parsed_data}
WrapInObject(k, t) == [shape |-> "dict", key |-> k, body |-> t.body]

-----------------------------------------------------------------------------
(* Files *)

(* A file name is the sequence of its dot-separated segments:               *)
(* "t.v2.Csv" is <<"t", "v2", "Csv">>, "README" is <<"README">>.            *)
(* A file's content is one of the classes                                   *)
(*   "object"   a well-formed document holding a mapping                    *)
(*   "rows"     a well-formed document holding a table of uniform records   *)
(*   "dated"    a well-formed document holding a date or time value         *)
(*   "garbage"  text the parser rejects                                     *)
(*   "binary"   bytes that are not UTF-8 text                               *)
Contents == {"object", "rows", "dated", "garbage", "binary"}

File(n, c) == [name |-> n, content |-> c]
NoFile == [name |-> <<>>, content |-> "none"]

FilesJson ==
    {File(<<"a", "json">>, c) : c \in {"object", "rows", "garbage", "binary"}}
    \cup {File(<<"b", "v2", "json">>, "object")}

FilesMulti ==
    {File(<<"a", "json">>, c) : c \in {"object", "rows", "garbage"}}
    \cup {File(<<"A", "JSON">>, "object")}
    \cup {File(<<"t", "csv">>, c) : c \in {"rows", "garbage"}}
    \cup {File(<<"t", "v2", "Csv">>, "rows")}
    \cup {File(<<"s", "xlsx">>, "rows")}
    \cup {File(<<"s", "xls">>, c) : c \in {"rows", "dated"}}
    \cup {File(<<"c", "yaml">>, "object"), File(<<"c", "yml">>, "dated")}
    \cup {File(<<"d", "xml">>, c) : c \in {"object", "garbage"}}
    \cup {File(<<"p", "toml">>, c) : c \in {"object", "binary"}}
    \cup {File(n, "object") : n \in {<<"n", "txt">>, <<"README">>, <<"a", "json", "bak">>}}

Files(a) == IF a = "json" THEN FilesJson ELSE FilesMulti

\* str.rsplit('.', 1): the parts of the name around its last dot.
RSplit1(name) ==
    IF Len(name) <= 1
    THEN <<name>>
    ELSE <<SubSeq(name, 1, Len(name) - 1), <<name[Len(name)]>>>>

\* str.lower() on the segments that occur as extensions.
Lower(s) ==
    CASE s = "JSON" -> "json"
      [] s = "Csv" -> "csv"
      [] OTHER -> s

-----------------------------------------------------------------------------
(* Format parsers, multi 68-119.  A parser returns Ok(tree) or raises.      *)

Ok(t) == [raised |-> "none", value |-> t]
Raise(e) == [raised |-> e, value |-> NoTree]

\* uploaded_file.read().decode('utf-8')
Utf8(content) == content # "binary"

\* json.loads / json.load: JSON text has no date literal.
parse_json(content) ==
    CASE content = "object" -> Ok(Tree("dict", "object"))
      [] content = "rows" -> Ok(Tree("list", "rows"))
      [] OTHER -> Raise("JSONDecodeError")

\* pd.read_csv(...).to_dict(orient='records'): always a list of records;
\* read_csv keeps dates as text.
parse_csv(content) ==
    IF content \in {"garbage", "binary"}
    THEN Raise("ParserError")
    ELSE Ok(Tree("list", "rows"))

\* pd.read_excel(...).to_dict(orient='records'): a list of records; date
\* cells come back as Timestamp objects.
parse_excel(content) ==
    CASE content \in {"garbage", "binary"} -> Raise("ValueError")
      [] content = "dated" -> Ok(Tree("list", "dated"))
      [] OTHER -> Ok(Tree("list", "rows"))

\* yaml.safe_load
parse_yaml(content) ==
    CASE content = "object" -> Ok(Tree("dict", "object"))
      [] content = "rows" -> Ok(Tree("list", "rows"))
      [] content = "dated" -> Ok(Tree("dict", "dated"))
      [] OTHER -> Raise("YAMLError")

\* ET.fromstring and xml_to_dict: {root.tag: ...}, strings and None inside.
parse_xml(content) ==
    IF content \in {"garbage", "binary"}
    THEN Raise("ParseError")
    ELSE Ok(Tree("dict", "object"))

\* tomllib.loads: a dict; raises ImportError when no TOML module was found.
parse_toml(content, toml) ==
    CASE toml = PyNone -> Raise("ImportError")
      [] content = "garbage" -> Raise("TOMLDecodeError")
      [] content = "dated" -> Ok(Tree("dict", "dated"))
      [] OTHER -> Ok(Tree("dict", "object"))

-----------------------------------------------------------------------------
(* parse_xml in full, multi 86-113 *)

(* The values xml_to_dict builds.  A dict is the sequence of its items in   *)
(* insertion order, a list the sequence of its elements; both hold items    *)
(* [key, val], a list's keys being "".                                      *)
PyNoneValue == [kind |-> "none", str |-> "", items |-> <<>>]
PyStr(s) == [kind |-> "str", str |-> s, items |-> <<>>]
PyDict(items) == [kind |-> "dict", str |-> "", items |-> items]
PyList(items) == [kind |-> "list", str |-> "", items |-> items]
Item(k, v) == [key |-> k, val |-> v]

\* key in d
HasKey(d, k) == \E i \in 1..Len(d.items) : d.items[i].key = k

\* d[k]
GetItem(d, k) == d.items[CHOOSE i \in 1..Len(d.items) : d.items[i].key = k].val

\* d[k] = v: a new key goes to the end, a known key keeps its place.
SetItem(d, k, v) ==
    IF HasKey(d, k)
    THEN PyDict([i \in 1..Len(d.items) |->
                    IF d.items[i].key = k THEN Item(k, v) ELSE d.items[i]])
    ELSE PyDict(Append(d.items, Item(k, v)))

\* l.append(v)
ListAppend(l, v) == PyList(Append(l.items, Item("", v)))

(* An Element: its tag, its attrib dict, its text (NoText is Python's None) *)
(* and its child Elements in document order.                                *)
NoText == "<None>"
Element(tag, attrib, text, children) ==
    [tag |-> tag, attrib |-> attrib, text |-> text, children |-> children]

\* str.strip() on the texts of the model's documents.
Strip(s) ==
    CASE s = "  " -> ""
      [] s = " hi " -> "hi"
      [] OTHER -> s

\* The truth value of a dict or a str: empty is false.
Truthy(v) == IF v.kind = "str" THEN v.str # "" ELSE Len(v.items) > 0

\* element.text and element.text.strip()
HasText(element) == element.text # NoText /\ element.text # "" /\ Strip(element.text) # ""

\* The loop's body with the first occurrences of a repeated tag dropped.
AddChild_Overwrite(result, tag, child_data) == SetItem(result, tag, child_data)

\* The body of the loop over the children, multi 103-108.
AddChild(result, tag, child_data) ==
    IF HasKey(result, tag)
    THEN LET old == GetItem(result, tag)
             lst == IF old.kind # "list" THEN PyList(<<Item("", old)>>) ELSE old
         IN  SetItem(result, tag, ListAppend(lst, child_data))
    ELSE SetItem(result, tag, child_data)

RECURSIVE xml_to_dict(_)
RECURSIVE AddChildren(_, _, _)

\* for child in element, from the i-th child on.
AddChildren(result, children, i) ==
    IF i > Len(children)
    THEN result
    ELSE AddChildren(AddChild(result, children[i].tag, xml_to_dict(children[i])),
                     children, i + 1)

\* multi 88-110
xml_to_dict(element) ==
    LET r0 == PyDict(<<>>)
        r1 == IF Truthy(element.attrib)
              THEN SetItem(r0, "@attributes", element.attrib)
              ELSE r0
    IN  IF HasText(element) /\ Len(element.children) = 0
        THEN PyStr(Strip(element.text))
        ELSE LET r2 == IF HasText(element)
                       THEN SetItem(r1, "#text", PyStr(Strip(element.text)))
                       ELSE r1
                 r3 == AddChildren(r2, element.children, 1)
             IN  IF Truthy(r3) THEN r3 ELSE PyNoneValue

\* return {root.tag: xml_to_dict(root)}, multi 112-113, on the parsed root.
parse_xml_root(root) == PyDict(<<Item(root.tag, xml_to_dict(root))>>)

NoElement == Element("<none>", PyDict(<<>>), NoText, <<>>)
NotParsed == [kind |-> "unset", str |-> "", items |-> <<>>]

XmlIdle ==
    /\ xml_doc = NoElement
    /\ xml_result = NotParsed

-----------------------------------------------------------------------------
(* Sample data *)

\* json 113-131
SampleDataJsonApp == Tree("dict", "sample")
\* multi 190-196
SampleDataJson == Tree("dict", "sample_json")
\* multi 202-206
SampleDataCsv == Tree("list", "sample_csv")

\* A value of st.session_state is a tree (sample_data) or a text (sample_format).
EmptySession == [k \in {} |-> [tree |-> NoTree, text |-> ""]]

\* The button's body: what st.session_state holds after the click.
LoadSampleJsonApp(ss) ==
    [k \in DOMAIN ss \cup {"sample_data"} |->
        IF k = "sample_data" THEN [tree |-> SampleDataJsonApp, text |-> ""] ELSE ss[k]]

LoadSampleJson(ss) ==
    [k \in DOMAIN ss \cup {"sample_data", "sample_format"} |->
        CASE k = "sample_data" -> [tree |-> SampleDataJson, text |-> ""]
          [] k = "sample_format" -> [tree |-> NoTree, text |-> "json"]
          [] OTHER -> ss[k]]

\* The CSV button without its sample_format line.
LoadSampleCsv_NoFormat(ss) ==
    [k \in DOMAIN ss \cup {"sample_data"} |->
        IF k = "sample_data" THEN [tree |-> SampleDataCsv, text |-> ""] ELSE ss[k]]

LoadSampleCsv(ss) ==
    [k \in DOMAIN ss \cup {"sample_data", "sample_format"} |->
        CASE k = "sample_data" -> [tree |-> SampleDataCsv, text |-> ""]
          [] k = "sample_format" -> [tree |-> NoTree, text |-> "csv"]
          [] OTHER -> ss[k]]

-----------------------------------------------------------------------------
(* Loading the input: json 144-149, multi 219-264 *)

\* The if/elif chain on file_ext, multi 223-258: the parser it calls.
ParserFor(file_ext) ==
    CASE file_ext = "json" -> "parse_json"
      [] file_ext = "csv" -> "parse_csv"
      [] file_ext \in {"xlsx", "xls"} -> "parse_excel"
      [] file_ext \in {"yaml", "yml"} -> "parse_yaml"
      [] file_ext = "xml" -> "parse_xml"
      [] file_ext = "toml" -> "parse_toml"
      [] OTHER -> "none"

\* original_format as each branch of the chain sets it.
FormatLabel(parser) ==
    CASE parser = "parse_json" -> "JSON"
      [] parser = "parse_csv" -> "CSV"
      [] parser = "parse_excel" -> "Excel"
      [] parser = "parse_yaml" -> "YAML"
      [] parser = "parse_xml" -> "XML"
      [] parser = "parse_toml" -> "TOML"
      [] OTHER -> "none"

\* The branch's read and parse: every branch but Excel's decodes the bytes first.
CallParser(parser, content, toml) ==
    IF parser # "parse_excel" /\ ~Utf8(content)
    THEN Raise("UnicodeDecodeError")
    ELSE CASE parser = "parse_json" -> parse_json(content)
           [] parser = "parse_csv" -> parse_csv(content)
           [] parser = "parse_excel" -> parse_excel(content)
           [] parser = "parse_yaml" -> parse_yaml(content)
           [] parser = "parse_xml" -> parse_xml(content)
           [] OTHER -> parse_toml(content, toml)

\* The wrapping left out of the Excel branch.
WrapTabular_CsvOnly(parser, wrap, key, t) ==
    IF parser = "parse_csv" /\ wrap THEN WrapInObject(key, t) ELSE t

\* if wrap_in_object: parsed_data = {data_key: parsed_data}, in the csv and
\* the Excel branch only.
WrapTabular(parser, wrap, key, t) ==
    IF parser \in {"parse_csv", "parse_excel"} /\ wrap THEN WrapInObject(key, t) ELSE t

\* str.upper() on the sample formats.
Upper(s) ==
    CASE s = "json" -> "JSON"
      [] s = "csv" -> "CSV"
      [] OTHER -> s

\* st.session_state.get('sample_format', 'JSON')
GetSampleFormat(ss) ==
    IF "sample_format" \in DOMAIN ss THEN ss["sample_format"].text ELSE "JSON"

\* if original_format == 'CSV' and wrap_in_object, multi 263-264
WrapSample(original_format, wrap, key, t) ==
    IF original_format = "CSV" /\ wrap THEN WrapInObject(key, t) ELSE t

Loaded(outcome, raised, source, parser, data, label, stem) ==
    [outcome |-> outcome, raised |-> raised, source |-> source, parser |-> parser,
     data |-> data, original_format |-> label, file_name |-> stem]

\* multi 219-264
LoadMulti(file, ss, wrap, key, toml) ==
    IF file # NoFile
    THEN LET parts == RSplit1(file.name)
             stem == parts[1]
         IN  IF Len(parts) < 2
             THEN \* uploaded_file.name.rsplit('.', 1)[1] on a name without a dot
                  Loaded("raised", "IndexError", "file", "none", NoTree, "none", stem)
             ELSE LET file_ext == Lower(parts[2][1])
                      parser == ParserFor(file_ext)
                      res == CallParser(parser, file.content, toml)
                  IN  CASE parser = "none" ->
                             \* st.error("Unsupported format"); st.stop()
                             Loaded("stop", "none", "file", "none", NoTree, "none", stem)
                        [] parser # "none" /\ res.raised # "none" ->
                             Loaded("raised", res.raised, "file", parser, NoTree,
                                    "none", stem)
                        [] OTHER ->
                             Loaded("ok", "none", "file", parser,
                                    WrapTabular(parser, wrap, key, res.value),
                                    FormatLabel(parser), stem)
    ELSE LET original_format == Upper(GetSampleFormat(ss))
         IN  Loaded("ok", "none", "sample", "none",
                    WrapSample(original_format, wrap, key, ss["sample_data"].tree),
                    original_format, <<"sample">>)

\* json 144-149; this script shows no source format.
LoadJsonApp(file, ss) ==
    IF file # NoFile
    THEN LET res == IF Utf8(file.content)
                    THEN parse_json(file.content)
                    ELSE Raise("UnicodeDecodeError")
         IN  IF res.raised # "none"
             THEN Loaded("raised", res.raised, "file", "json.load", NoTree, "none", <<>>)
             ELSE Loaded("ok", "none", "file", "json.load", res.value, "none",
                         RSplit1(file.name)[1])
    ELSE Loaded("ok", "none", "sample", "none", ss["sample_data"].tree, "none",
                <<"sample">>)

-----------------------------------------------------------------------------
(* The conversion block: json 140-252, multi 215-362 *)

NoOptions == [indent |-> 0, delimiter |-> "none", lengthMarker |-> "none"]

\* The checkbox's value passed on as it is.
EncodeOptions_CheckboxValue(ind, del, marker) ==
    [indent |-> ind, delimiter |-> del, lengthMarker |-> IF marker THEN PyTrue ELSE PyFalse]

\* encode_options, json 152-156, multi 267-271
EncodeOptions(ind, del, marker) ==
    [indent |-> ind, delimiter |-> del, lengthMarker |-> IF marker THEN "#" ELSE PyFalse]

(* toon.encode is a library.  Whether it accepts a date or time value is    *)
(* the library's business: both outcomes are allowed (strict).  Trees of    *)
(* JSON types are encoded.                                                  *)
EncodeRaises(data, strict) == data.body = "dated" /\ strict

\* json.dumps(parsed_data, indent=2) raises TypeError on a date or time value.
Dumpable(data) == data.body # "dated"

\* Only the JSON error handled.
Handler_JsonOnly(a, exc) ==
    IF exc = "JSONDecodeError" THEN "invalid_json" ELSE "uncaught"

(* The except clauses: json 248-252 (JSONDecodeError first, then Exception), *)
(* multi 360-362 (Exception).  The result is the st.error shown;            *)
(* "uncaught" would end the run inside Streamlit's own exception display.   *)
Handler(a, exc) ==
    IF a = "json" /\ exc = "JSONDecodeError" THEN "invalid_json" ELSE "conversion"

\* What a run that takes the else branch (the instructions) leaves behind.
IdleRun ==
    [branch |-> "idle", clicked |-> "none", source |-> "none", parser |-> "none",
     original_format |-> "none", file_name |-> <<>>,
     encode_calls |-> 0, encode_data |-> NoTree, encode_options |-> NoOptions,
     raised |-> "none", stage |-> "none", errors |-> {},
     toon_shown |-> FALSE, toon_download |-> FALSE, json_download |-> FALSE,
     footer |-> TRUE]

\* An exception leaves the try block at once; the handler renders the error.
Failed(a, r, exc, stage) ==
    [r EXCEPT !.raised = exc, !.stage = stage,
              !.errors = IF Handler(a, exc) = "uncaught" THEN {} ELSE {Handler(a, exc)},
              !.footer = Handler(a, exc) # "uncaught"]

\* The try block after loading: encode, the statistics, the tabs.
Convert(a, load, opts, strict) ==
    LET entered == [IdleRun EXCEPT !.branch = "process", !.source = load.source,
                                   !.parser = load.parser,
                                   !.file_name = load.file_name]
        called == [entered EXCEPT !.original_format = load.original_format,
                                  !.encode_calls = 1, !.encode_data = load.data,
                                  !.encode_options = opts]
    IN  CASE load.outcome = "stop" ->
               [entered EXCEPT !.errors = {"unsupported"}, !.footer = FALSE]
          [] load.outcome = "raised" -> Failed(a, entered, load.raised, "load")
          [] load.outcome = "ok" /\ EncodeRaises(load.data, strict) ->
               Failed(a, called, "EncodeError", "encode")
          [] load.outcome = "ok" /\ ~EncodeRaises(load.data, strict)
                                 /\ ~Dumpable(load.data) ->
               Failed(a, called, "TypeError", "stats")
          [] OTHER ->
               [called EXCEPT !.toon_shown = TRUE, !.toon_download = TRUE,
                              !.json_download = TRUE]

\* The test without its session-state half.
HasInput_FileOnly(file, ss) == file # NoFile

\* if uploaded_file is not None or 'sample_data' in st.session_state
HasInput(file, ss) == file # NoFile \/ "sample_data" \in DOMAIN ss

\* The sample buttons' bodies, json 112-133, multi 189-208.
SessionAfter(ss, clicked) ==
    CASE clicked = "sample" -> LoadSampleJsonApp(ss)
      [] clicked = "json_sample" -> LoadSampleJson(ss)
      [] clicked = "csv_sample" -> LoadSampleCsv(ss)
      [] OTHER -> ss

\* One run of the script, from the widgets' values to the footer.
Script(a, toml, file, ind, del, marker, wrap, key, ss, clicked, strict) ==
    LET result ==
          IF HasInput(file, ss)
          THEN Convert(a,
                       IF a = "json" THEN LoadJsonApp(file, ss)
                                     ELSE LoadMulti(file, ss, wrap, key, toml),
                       EncodeOptions(ind, del, marker), strict)
          ELSE IdleRun
    IN  [result EXCEPT !.clicked = clicked]

-----------------------------------------------------------------------------
(* The session *)

UIInit ==
    /\ app \in {"json", "multi"}
    /\ tomllib \in (IF app = "multi" THEN {"module", PyNone} ELSE {PyNone})
    /\ uploaded_file = NoFile
    /\ indent_size = DefaultIndent
    /\ delimiter = DefaultDelimiter
    /\ use_length_marker = FALSE
    /\ wrap_in_object = TRUE
    /\ data_key = DefaultDataKey
    /\ session_state = EmptySession
    /\ last_sample = "none"
    /\ options_changed = FALSE
    /\ run = IdleRun

\* The script runs on the widgets' new values; `clicked' is the button pressed.
Rerun(clicked) ==
    /\ session_state' = SessionAfter(session_state, clicked)
    /\ \E strict \in BOOLEAN :
         run' = Script(app, tomllib, uploaded_file', indent_size', delimiter',
                       use_length_marker', wrap_in_object', data_key',
                       session_state', clicked, strict)
    /\ UNCHANGED <<app, tomllib, statvars, xmlvars>>

UploadFile(f) ==
    /\ f \in Files(app)
    /\ f # uploaded_file
    /\ uploaded_file' = f
    /\ UNCHANGED <<indent_size, delimiter, use_length_marker, wrap_in_object, data_key,
                   last_sample>>
    /\ UNCHANGED options_changed
    /\ Rerun("none")

RemoveFile ==
    /\ uploaded_file # NoFile
    /\ uploaded_file' = NoFile
    /\ UNCHANGED <<indent_size, delimiter, use_length_marker, wrap_in_object, data_key,
                   last_sample>>
    /\ UNCHANGED options_changed
    /\ Rerun("none")

SampleButtons(a) == IF a = "json" THEN {"sample"} ELSE {"json_sample", "csv_sample"}

ClickSample(b) ==
    /\ b \in SampleButtons(app)
    /\ last_sample' = b
    /\ UNCHANGED <<uploaded_file, indent_size, delimiter, use_length_marker,
                   wrap_in_object, data_key>>
    /\ UNCHANGED options_changed
    /\ Rerun(b)

ChangeIndent(i) ==
    /\ i \in MinIndent..MaxIndent
    /\ i # indent_size
    /\ indent_size' = i
    /\ UNCHANGED <<uploaded_file, delimiter, use_length_marker, wrap_in_object, data_key,
                   last_sample>>
    /\ options_changed' = TRUE
    /\ Rerun("none")

ChangeDelimiter(d) ==
    /\ d \in Delimiters
    /\ d # delimiter
    /\ delimiter' = d
    /\ UNCHANGED <<uploaded_file, indent_size, use_length_marker, wrap_in_object,
                   data_key, last_sample>>
    /\ options_changed' = TRUE
    /\ Rerun("none")

ToggleLengthMarker ==
    /\ use_length_marker' = ~use_length_marker
    /\ UNCHANGED <<uploaded_file, indent_size, delimiter, wrap_in_object, data_key,
                   last_sample>>
    /\ options_changed' = TRUE
    /\ Rerun("none")

ToggleWrap ==
    /\ app = "multi"
    /\ wrap_in_object' = ~wrap_in_object
    /\ UNCHANGED <<uploaded_file, indent_size, delimiter, use_length_marker, data_key,
                   last_sample>>
    /\ UNCHANGED options_changed
    /\ Rerun("none")

\* The text input is disabled while the checkbox is off.
ChangeDataKey(k) ==
    /\ app = "multi"
    /\ wrap_in_object
    /\ k \in DataKeys
    /\ k # data_key
    /\ data_key' = k
    /\ UNCHANGED <<uploaded_file, indent_size, delimiter, use_length_marker,
                   wrap_in_object, last_sample>>
    /\ UNCHANGED options_changed
    /\ Rerun("none")

Next ==
    \/ \E f \in FilesJson \cup FilesMulti : UploadFile(f)
    \/ RemoveFile
    \/ \E b \in {"sample", "json_sample", "csv_sample"} : ClickSample(b)
    \/ \E i \in MinIndent..MaxIndent : ChangeIndent(i)
    \/ \E d \in Delimiters : ChangeDelimiter(d)
    \/ ToggleLengthMarker
    \/ ToggleWrap
    \/ \E k \in DataKeys : ChangeDataKey(k)

NoReport == [saved |-> 0, toon_delta |-> <<"", 0>>, percent_tenths |-> 0, shown |-> FALSE]

Init ==
    /\ UIInit
    /\ XmlIdle
    /\ json_size = 1
    /\ toon_size = 0
    /\ report = NoReport

Spec == Init /\ [][Next]_vars

-----------------------------------------------------------------------------
(* The statistics and the metrics: json 161-193, multi 276-309 *)

\* The largest json_size drawn; toon_size is drawn up to twice that.
MaxSize == 16

Abs(n) == IF n < 0 THEN 0 - n ELSE n

(* f"{reduction:.1f}" with reduction = 100 * (1 - toon_size / json_size),   *)
(* as the number of tenths shown.  Formatting rounds the double to the      *)
(* nearest tenth, a tie to the even digit; for json_size below 80 the       *)
(* double is close enough to the quotient for this to be the digit Python   *)
(* prints.                                                                  *)
ReductionTenths(j, t) ==
    LET n == 1000 * (j - t)
        a == Abs(n)
        q == a \div j
        r == a % j
        m == CASE 2 * r > j -> q + 1
               [] 2 * r < j -> q
               [] OTHER -> IF q % 2 = 0 THEN q ELSE q + 1
    IN  IF n < 0 THEN 0 - m ELSE m

Metrics_Clamped(j, t) ==
    [saved |-> IF j < t THEN 0 ELSE j - t,
     toon_delta |-> <<"-", IF j < t THEN 0 ELSE j - t>>,
     percent_tenths |-> IF j < t THEN 0 ELSE ReductionTenths(j, t),
     shown |-> TRUE]

(* The three st.metric calls and the summary text:                          *)
(*   saved           "Saved {json_size - toon_size} chars"                  *)
(*   toon_delta      f"-{json_size - toon_size} chars": a dash, the number  *)
(*   percent_tenths  f"{reduction:.1f}%"                                    *)
Metrics(j, t) ==
    [saved |-> j - t,
     toon_delta |-> <<"-", j - t>>,
     percent_tenths |-> ReductionTenths(j, t),
     shown |-> TRUE]

InitStats ==
    /\ UIInit
    /\ XmlIdle
    /\ json_size \in 1..MaxSize
    /\ toon_size \in 0..(2 * MaxSize)
    /\ report = NoReport

Statistics ==
    /\ ~report.shown
    /\ report' = Metrics(json_size, toon_size)
    /\ UNCHANGED <<uivars, json_size, toon_size, xmlvars>>

NextStats == Statistics

SpecStats == InitStats /\ [][NextStats]_vars

-----------------------------------------------------------------------------
(* C4 *)

(* C4 as stated: the absolute reduction shown is json_size - toon_size and  *)
(* the percentage shown is exactly 100 * (1 - toon_size / json_size), both  *)
(* negative when toon_size > json_size.                                     *)
C4_ExactPercentage ==
    report.shown =>
        /\ report.saved = json_size - toon_size
        /\ report.percent_tenths * json_size = 1000 * (json_size - toon_size)
        /\ (toon_size > json_size => report.saved < 0 /\ report.percent_tenths < 0)

(* C4, amended: the absolute reduction shown is json_size - toon_size (in   *)
(* the TOON metric's delta after a literal dash), the percentage shown is   *)
(* 100 * (1 - toon_size / json_size) rounded to one decimal place, and when *)
(* toon_size > json_size the first is negative and the second is not        *)
(* positive: neither is clamped to zero or made absolute.                   *)
C4_SizeDiagnostics ==
    report.shown =>
        /\ report.saved = json_size - toon_size
        /\ report.toon_delta = <<"-", json_size - toon_size>>
        /\ 2 * Abs(report.percent_tenths * json_size - 1000 * (json_size - toon_size))
              <= json_size
        /\ (toon_size > json_size => report.saved < 0 /\ report.percent_tenths <= 0)

\* A negative reduction whose percentage had to be rounded is on display.
C4_Witness ==
    /\ report.shown
    /\ toon_size > json_size
    /\ report.saved < 0
    /\ report.percent_tenths < 0
    /\ report.percent_tenths * json_size # 1000 * (json_size - toon_size)

-----------------------------------------------------------------------------
(* C5 *)

(* C5 as stated: in every run that calls encode the options hold an indent  *)
(* in 1..4, a delimiter among comma, tab and pipe, and a boolean            *)
(* lengthMarker that is true exactly when the checkbox is on; with no       *)
(* option changed they are 2, comma and false.                              *)
C5_BooleanLengthMarker ==
    run.encode_calls = 1 =>
        /\ run.encode_options.indent \in 1..4
        /\ run.encode_options.delimiter \in {"comma", "tab", "pipe"}
        /\ run.encode_options.lengthMarker \in {PyTrue, PyFalse}
        /\ (run.encode_options.lengthMarker = PyTrue <=> use_length_marker)

(* C5, amended: in every run that calls encode the options hold the         *)
(* slider's indent, in 1..4, the selected delimiter, one of comma, tab and  *)
(* pipe, and as lengthMarker the string "#" when the checkbox is on and     *)
(* False when it is off; with no option changed they are 2, comma, False.   *)
C5_EncodeOptions ==
    run.encode_calls = 1 =>
        /\ run.encode_options.indent = indent_size
        /\ run.encode_options.indent \in 1..4
        /\ run.encode_options.delimiter = delimiter
        /\ run.encode_options.delimiter \in {"comma", "tab", "pipe"}
        /\ run.encode_options.lengthMarker
             = (IF use_length_marker THEN "#" ELSE PyFalse)
        /\ (~options_changed =>
              run.encode_options
                = [indent |-> 2, delimiter |-> "comma", lengthMarker |-> PyFalse])

\* encode was called with the marker on and a changed indent and delimiter.
C5_Witness ==
    /\ run.encode_calls = 1
    /\ use_length_marker
    /\ run.encode_options = [indent |-> 4, delimiter |-> "pipe", lengthMarker |-> "#"]

-----------------------------------------------------------------------------
(* C6 *)

(* C6: in a run with input available, an exception raised while the input   *)
(* is loaded or parsed, while it is encoded or while the statistics are     *)
(* computed is shown as an error; the run then shows no TOON output, offers *)
(* no TOON download, and reaches the footer.                                *)
C6_ErrorsSurfaced ==
    (run.branch = "process" /\ run.raised # "none") =>
        /\ run.stage \in {"load", "encode", "stats"}
        /\ run.errors \in {{"invalid_json"}, {"conversion"}}
        /\ ~run.toon_shown
        /\ ~run.toon_download
        /\ run.footer

\* json.dumps raised after encode had returned, on data parsed from a file.
C6_Witness ==
    /\ run.branch = "process"
    /\ run.source = "file"
    /\ run.stage = "stats"
    /\ run.raised = "TypeError"
    /\ run.encode_calls = 1
    /\ run.footer

-----------------------------------------------------------------------------
(* C7 *)

\* The parser and the label C7 names for the text after the last dot.
C7_Expected(ext) ==
    CASE ext = "json" -> <<"parse_json", "JSON">>
      [] ext = "csv" -> <<"parse_csv", "CSV">>
      [] ext \in {"xlsx", "xls"} -> <<"parse_excel", "Excel">>
      [] ext \in {"yaml", "yml"} -> <<"parse_yaml", "YAML">>
      [] ext = "xml" -> <<"parse_xml", "XML">>
      [] ext = "toml" -> <<"parse_toml", "TOML">>
      [] OTHER -> <<"none", "none">>

C7_Supported == {"json", "csv", "xlsx", "xls", "yaml", "yml", "xml", "toml"}

C7_DottedNames ==
    (app = "multi" /\ uploaded_file # NoFile) =>
        LET name == uploaded_file.name
            dotted == Len(name) >= 2
            ext == IF dotted THEN Lower(name[Len(name)]) ELSE "<no dot>"
        IN  CASE dotted /\ ext \in C7_Supported ->
                   /\ run.parser = C7_Expected(ext)[1]
                   /\ (run.encode_calls = 1 =>
                          run.original_format = C7_Expected(ext)[2])
              [] dotted /\ ext \notin C7_Supported ->
                   /\ run.errors = {"unsupported"}
                   /\ run.encode_calls = 0
                   /\ ~run.footer
              [] OTHER ->
                   /\ run.raised = "IndexError"
                   /\ run.errors = {"conversion"}
                   /\ run.encode_calls = 0
                   /\ run.footer

-----------------------------------------------------------------------------
(* C8 *)

(* C8: data of a tabular source (a CSV or Excel upload, the CSV sample)     *)
(* reaches encode as {data_key: records} when "Wrap tabular data in object" *)
(* is on and as the bare list when it is off; data of a JSON, YAML, XML or  *)
(* TOML source, the JSON sample included, is never wrapped.                 *)
C8_TabularWrapping ==
    (app = "multi" /\ run.encode_calls = 1) =>
        LET name == uploaded_file.name
            ext == Lower(name[Len(name)])
            tabular == IF uploaded_file # NoFile
                       THEN ext \in {"csv", "xlsx", "xls"}
                       ELSE last_sample = "csv_sample"
        IN  IF tabular /\ wrap_in_object
            THEN /\ run.encode_data.shape = "dict"
                 /\ run.encode_data.key = data_key
                 /\ run.encode_data.body \in {"rows", "dated", "sample_csv"}
            ELSE /\ run.encode_data.key = NoKey
                 /\ (tabular => run.encode_data.shape = "list")

\* An Excel upload went to encode under the key the user typed.
C8_Witness ==
    /\ app = "multi"
    /\ run.encode_calls = 1
    /\ run.parser = "parse_excel"
    /\ wrap_in_object
    /\ data_key = "rows"
    /\ run.encode_data = [shape |-> "dict", key |-> "rows", body |-> "rows"]

-----------------------------------------------------------------------------
(* C9 *)

\* The data and the label of the sample each button loads.
C9_SampleBody(b) ==
    CASE b = "sample" -> "sample"
      [] b = "json_sample" -> "sample_json"
      [] b = "csv_sample" -> "sample_csv"
      [] OTHER -> "none"

C9_SampleLabel(b) ==
    CASE b = "json_sample" -> "JSON"
      [] b = "csv_sample" -> "CSV"
      [] OTHER -> "none"

(* C9: a run enters the conversion iff a file is uploaded now or a sample   *)
(* button was clicked in this or an earlier run; with a file uploaded the   *)
(* data and the label are that file's, never the stored sample's; a loaded  *)
(* sample stays in the session state, and every run without an upload       *)
(* converts the sample loaded most recently, under that sample's label.     *)
C9_InputSelection ==
    /\ (run.branch = "process") <=> (uploaded_file # NoFile \/ last_sample # "none")
    /\ (uploaded_file # NoFile =>
          /\ run.source = "file"
          /\ (run.encode_calls = 1 =>
                /\ run.encode_data.body = uploaded_file.content
                /\ (app = "multi" =>
                      run.original_format
                        = C7_Expected(Lower(uploaded_file.name[Len(uploaded_file.name)]))[2])))
    /\ (last_sample # "none" =>
          /\ "sample_data" \in DOMAIN session_state
          /\ session_state["sample_data"].tree.body = C9_SampleBody(last_sample))
    /\ ((uploaded_file = NoFile /\ last_sample # "none") =>
          /\ run.source = "sample"
          /\ run.encode_calls = 1
          /\ run.encode_data.body = C9_SampleBody(last_sample)
          /\ run.original_format = C9_SampleLabel(last_sample))

(* The CSV sample is converted again in a later run, one that a changed     *)
(* option started, with no file uploaded.                                   *)
C9_Witness ==
    /\ uploaded_file = NoFile
    /\ last_sample = "csv_sample"
    /\ run.clicked = "none"
    /\ options_changed
    /\ run.encode_calls = 1
    /\ run.encode_data.body = "sample_csv"
    /\ run.original_format = "CSV"

-----------------------------------------------------------------------------
(* C10 *)

C10_StoredTrees == {session_state[k].tree : k \in DOMAIN session_state} \ {NoTree}

\* The run loaded its input without an exception and without st.stop().
C10_Loaded ==
    /\ run.branch = "process"
    /\ run.stage # "load"
    /\ "unsupported" \notin run.errors

(* C10 as stated: encode is called at most once per run, exactly once when  *)
(* input is available and parsing succeeds; the tree it gets is built in    *)
(* that run from the parse result; no tree is kept after the run.           *)
C10_NoTreeKept ==
    /\ run.encode_calls \in {0, 1}
    /\ (C10_Loaded => run.encode_calls = 1)
    /\ (run.encode_calls = 1 => run.source = "file" /\ run.parser # "none")
    /\ C10_StoredTrees = {}

(* C10, amended: encode is called at most once per run, exactly once when   *)
(* input is available and loading it succeeds.  The tree of an uploaded     *)
(* file is built in that run by the parser and is not kept.  The tree of a  *)
(* sample is built in the run of the click, kept in                         *)
(* st.session_state['sample_data'] as built, and given to encode again by   *)
(* every later run without an upload.  Nothing else is kept.                *)
C10_TreeLifecycle ==
    /\ run.encode_calls \in {0, 1}
    /\ (run.encode_calls = 1 <=>
          /\ uploaded_file # NoFile \/ "sample_data" \in DOMAIN session_state
          /\ C10_Loaded)
    /\ ((run.encode_calls = 1 /\ run.source = "file") =>
          /\ run.parser # "none"
          /\ run.encode_data.body = uploaded_file.content)
    /\ ((uploaded_file = NoFile /\ "sample_data" \in DOMAIN session_state) =>
          /\ run.encode_calls = 1
          /\ run.source = "sample"
          /\ run.encode_data.body = session_state["sample_data"].tree.body)
    /\ C10_StoredTrees \subseteq
          {Tree("dict", "sample"), Tree("dict", "sample_json"), Tree("list", "sample_csv")}
    /\ Cardinality(C10_StoredTrees) <= 1
    /\ (C10_StoredTrees # {} <=> last_sample # "none")

(* A run that no click started gives encode the stored CSV sample, wrapped  *)
(* in this run under the key the user typed; the stored tree is unwrapped.  *)
C10_Witness ==
    /\ uploaded_file = NoFile
    /\ run.clicked = "none"
    /\ run.source = "sample"
    /\ run.encode_calls = 1
    /\ run.encode_data = [shape |-> "dict", key |-> "rows", body |-> "sample_csv"]
    /\ C10_StoredTrees = {Tree("list", "sample_csv")}

-----------------------------------------------------------------------------
(* The XML documents parse_xml is applied to *)

\* The largest number of elements in a document, the root included.
MaxNodes == 4

XmlTags == {"a", "b"}
XmlAttribs == {PyDict(<<>>), PyDict(<<Item("id", PyStr("1"))>>)}
\* The text of an element below the root: none, or text that is not blank.
XmlTexts == {NoText, " hi "}
\* The text of the root: none, blank, or text that is not blank.
RootTexts == XmlTexts \cup {"  "}

XmlLabels == [tag : XmlTags, attrib : XmlAttribs, text : XmlTexts]
RootLabels == [tag : {"root"}, attrib : XmlAttribs, text : RootTexts]

(* A document of n elements in flat form: element 1 is the root, element i *)
(* > 1 is a child of the earlier element parent[i], and the children of an *)
(* element follow one another in the order of their numbers.               *)
Parents(n) ==
    {parent \in [1..n -> 0..(n - 1)] :
        /\ parent[1] = 0
        /\ \A i \in 2..n : parent[i] \in 1..(i - 1)}

RECURSIVE BuildElement(_, _, _, _)
RECURSIVE BuildChildren(_, _, _, _, _)

BuildChildren(parent, label, n, i, j) ==
    IF j > n
    THEN <<>>
    ELSE IF parent[j] = i
         THEN <<BuildElement(parent, label, n, j)>>
                  \o BuildChildren(parent, label, n, i, j + 1)
         ELSE BuildChildren(parent, label, n, i, j + 1)

BuildElement(parent, label, n, i) ==
    Element(label[i].tag, label[i].attrib, label[i].text,
            BuildChildren(parent, label, n, i, i + 1))

InitXml ==
    /\ app = "multi"
    /\ tomllib = "module"
    /\ uploaded_file = NoFile
    /\ indent_size = DefaultIndent
    /\ delimiter = DefaultDelimiter
    /\ use_length_marker = FALSE
    /\ wrap_in_object = TRUE
    /\ data_key = DefaultDataKey
    /\ session_state = EmptySession
    /\ last_sample = "none"
    /\ options_changed = FALSE
    /\ run = IdleRun
    /\ json_size = 1
    /\ toon_size = 0
    /\ report = NoReport
    /\ \E n \in 1..MaxNodes :
         \E parent \in Parents(n) :
           \E root \in RootLabels, rest \in [2..n -> XmlLabels] :
              xml_doc = BuildElement(parent,
                                     [i \in 1..n |-> IF i = 1 THEN root ELSE rest[i]],
                                     n, 1)
    /\ xml_result = NotParsed

ParseXml ==
    /\ xml_result = NotParsed
    /\ xml_result' = parse_xml_root(xml_doc)
    /\ UNCHANGED <<uivars, statvars, xml_doc>>

NextXml == ParseXml

SpecXml == InitXml /\ [][NextXml]_vars

(***************************************************************************)
(* Where the value of a child sits in its parent's value                   *)
(***************************************************************************)

\* The number of the first upto children of element that carry tag.
Occurrences(element, tag, upto) ==
    Cardinality({j \in 1..upto : element.children[j].tag = tag})

(* Child i of element is stored under its tag: alone when the tag occurs   *)
(* once among the children, and otherwise as the entry of the list that    *)
(* has the child's rank among its siblings of the same tag.                *)
ChildSlotExists(element, value, i) ==
    LET tag == element.children[i].tag
        k == Occurrences(element, tag, Len(element.children))
    IN  /\ value.kind = "dict"
        /\ HasKey(value, tag)
        /\ k >= 2 => /\ GetItem(value, tag).kind = "list"
                     /\ Len(GetItem(value, tag).items) >= Occurrences(element, tag, i)

ChildSlot(element, value, i) ==
    LET tag == element.children[i].tag
        slot == GetItem(value, tag)
    IN  IF Occurrences(element, tag, Len(element.children)) >= 2
        THEN slot.items[Occurrences(element, tag, i)].val
        ELSE slot

\* The parse has run and its result is the one-entry map from the root tag.
Parsed ==
    /\ xml_result # NotParsed
    /\ xml_result.kind = "dict"
    /\ Len(xml_result.items) = 1
    /\ xml_result.items[1].key = xml_doc.tag

RootValue == xml_result.items[1].val

(***************************************************************************)
(* C11: attributes                                                         *)
(***************************************************************************)

RECURSIVE C11_KeptIn(_, _)

(* value, the value produced for element, is a map with the element's      *)
(* attribute map under '@attributes' when the element has attributes, and  *)
(* the same holds of every descendant and the value produced for it.       *)
C11_KeptIn(element, value) ==
    /\ Truthy(element.attrib) =>
          /\ value.kind = "dict"
          /\ HasKey(value, "@attributes")
          /\ GetItem(value, "@attributes") = element.attrib
    /\ \A i \in 1..Len(element.children) :
          /\ ChildSlotExists(element, value, i)
          /\ C11_KeptIn(element.children[i], ChildSlot(element, value, i))

(* C11: once a document is parsed, every element of it that has at least   *)
(* one attribute, the root and the descendants alike, is given a map whose *)
(* '@attributes' entry equals the element's attribute map, whether or not  *)
(* the element has text or children.  An element with attributes and text  *)
(* but no children refutes it: its value is the stripped text alone.       *)
C11_AttributesKept ==
    xml_result # NotParsed => /\ Parsed
                              /\ C11_KeptIn(xml_doc, RootValue)

\* An element that has attributes, text that is not blank, and no children.
C11_TextLeaf(element) ==
    /\ Truthy(element.attrib)
    /\ HasText(element)
    /\ Len(element.children) = 0

RECURSIVE C11_KeptUnlessTextLeafIn(_, _)

C11_KeptUnlessTextLeafIn(element, value) ==
    /\ (Truthy(element.attrib) /\ ~C11_TextLeaf(element)) =>
          /\ value.kind = "dict"
          /\ HasKey(value, "@attributes")
          /\ GetItem(value, "@attributes") = element.attrib
    /\ C11_TextLeaf(element) => value = PyStr(Strip(element.text))
    /\ \A i \in 1..Len(element.children) :
          /\ ChildSlotExists(element, value, i)
          /\ C11_KeptUnlessTextLeafIn(element.children[i], ChildSlot(element, value, i))

(* What the code does keep: the attributes of every element except those   *)
(* with text and no children, whose value is the stripped text.            *)
C11_AttributesKeptUnlessTextLeaf ==
    xml_result # NotParsed => /\ Parsed
                              /\ C11_KeptUnlessTextLeafIn(xml_doc, RootValue)

(***************************************************************************)
(* C12: child grouping and key order                                       *)
(***************************************************************************)

Keys(value) == [i \in 1..Len(value.items) |-> value.items[i].key]

RECURSIVE C12_FirstTags(_, _)

\* The tags of the children from child i on that no earlier child carries.
C12_FirstTags(element, i) ==
    IF i > Len(element.children)
    THEN <<>>
    ELSE IF Occurrences(element, element.children[i].tag, i) = 1
         THEN <<element.children[i].tag>> \o C12_FirstTags(element, i + 1)
         ELSE C12_FirstTags(element, i + 1)

C12_ExpectedKeys(element) ==
    (IF Truthy(element.attrib) THEN <<"@attributes">> ELSE <<>>)
        \o (IF HasText(element) THEN <<"#text">> ELSE <<>>)
        \o C12_FirstTags(element, 1)

RECURSIVE C12_GroupedIn(_, _)

(* value is the value produced for element.  A map has its keys in the     *)
(* claimed order; an element with children has a map; a tag that occurs    *)
(* once maps to that child's converted value, which is no list; a tag that *)
(* occurs k >= 2 times maps to a list of exactly k entries, the j-th being *)
(* the converted value of the j-th child with the tag; and the same holds  *)
(* of every child and the value stored for it.                             *)
C12_GroupedIn(element, value) ==
    /\ value.kind \in {"dict", "str", "none"}
    /\ value.kind = "dict" => Keys(value) = C12_ExpectedKeys(element)
    /\ Len(element.children) > 0 => value.kind = "dict"
    /\ \A i \in 1..Len(element.children) :
          LET child == element.children[i]
              k == Occurrences(element, child.tag, Len(element.children))
          IN  /\ ChildSlotExists(element, value, i)
              /\ k = 1 => GetItem(value, child.tag).kind # "list"
              /\ k >= 2 => Len(GetItem(value, child.tag).items) = k
              /\ ChildSlot(element, value, i) = xml_to_dict(child)
              /\ C12_GroupedIn(child, ChildSlot(element, value, i))

(* C12: once a document is parsed, the result is a one-entry map from the  *)
(* root tag, and in the value of every element a child tag that occurs     *)
(* once maps to that child's converted value (a map, a string or null,     *)
(* never a list), a child tag that occurs k >= 2 times maps to a list of   *)
(* exactly k converted values in document order, and the keys stand in the *)
(* order '@attributes', '#text', child tags by first occurrence.           *)
C12_ChildGrouping ==
    xml_result # NotParsed => /\ Parsed
                              /\ C12_GroupedIn(xml_doc, RootValue)

(* A parsed document whose root has attributes, text and three children    *)
(* tagged a, b, a: the root's map has the keys '@attributes', '#text',     *)
(* 'a', 'b' in this order, 'a' holds a list of two values and 'b' a value  *)
(* that is no list.                                                        *)
C12_Witness ==
    /\ Parsed
    /\ Truthy(xml_doc.attrib)
    /\ HasText(xml_doc)
    /\ Len(xml_doc.children) = 3
    /\ xml_doc.children[1].tag = "a"
    /\ xml_doc.children[2].tag = "b"
    /\ xml_doc.children[3].tag = "a"
    /\ Keys(RootValue) = <<"@attributes", "#text", "a", "b">>
    /\ GetItem(RootValue, "a").kind = "list"
    /\ Len(GetItem(RootValue, "a").items) = 2
    /\ GetItem(RootValue, "b").kind # "list"

====
